---- MODULE Spec2Model ----
(***************************************************************************)
(* Model of pricemonitor.storing.storing (SanityContractUpdater and        *)
(* ContractRateArgumentsConverter) and of the ContractUpdaterMonitor that  *)
(* drives it (pricemonitor.monitoring.monitor_actions).                    *)
(*                                                                         *)
(* One invocation of update_prices is a "tick".  A coroutine runs          *)
(* atomically between two awaits, so a tick is cut at its awaits: the      *)
(* gather of the tokenRate reads and the setSanityRates call.              *)
(*                                                                         *)
(* Numbers.  A Python float is modelled as a binary floating point number  *)
(* with MantissaBits significant bits (53 in CPython), written as the      *)
(* exact fraction <<numerator, denominator>> it denotes; every float       *)
(* operation rounds its exact result to the nearest such number, ties to   *)
(* even.  The price value None is the pair <<0, 0>>.                       *)
(***************************************************************************)
EXTENDS Integers, Sequences, FiniteSets, TLC

\* ------------------------------------------------------------------ bounds
\* Significant bits of a float (CPython: 53).
MantissaBits == 5
\* Decimal digits of the fixed-point factor (the source: 18).
FactorDigits == 1
\* Invocations of update_prices started in one run.
MaxCycles == 2
\* Invocations of update_prices that may be in progress at once.
NumTicks == 2
\* The greatest raw rate taken through the two conversions.
MaxRaw == 40

\* -------------------------------------------------------------- arithmetic
RECURSIVE Pow(_, _)
Pow(b, k) == IF k = 0 THEN 1 ELSE b * Pow(b, k - 1)

Abs(x) == IF x < 0 THEN -x ELSE x

RECURSIVE GCD(_, _)
GCD(a, b) == IF b = 0 THEN a ELSE GCD(b, a % b)

\* The fraction n/d in lowest terms.
Frac(n, d) == LET g == GCD(Abs(n), d) IN <<n \div g, d \div g>>

None == <<0, 0>>
IsNone(p) == p[2] = 0
Zero == <<0, 1>>
FromInt(i) == <<i, 1>>

Less(x, y) == x[1] * y[2] < y[1] * x[2]
Equal(x, y) == x[1] * y[2] = y[1] * x[2]

\* round(n/d) for n >= 0: to the nearest integer, ties to the even one.
RoundHalfEvenNat(n, d) ==
    LET q == n \div d
        r == n % d
    IN  IF 2 * r > d \/ (2 * r = d /\ q % 2 = 1) THEN q + 1 ELSE q

\* The least k >= 0 with n / (d * 2^k) < 2^MantissaBits.
RECURSIVE ShiftDown(_, _, _)
ShiftDown(n, d, k) ==
    IF n < d * Pow(2, MantissaBits + k) THEN k ELSE ShiftDown(n, d, k + 1)

\* The least k >= 0 with n * 2^k / d >= 2^(MantissaBits - 1), for n > 0.
RECURSIVE ShiftUp(_, _, _)
ShiftUp(n, d, k) ==
    IF n * Pow(2, k) >= d * Pow(2, MantissaBits - 1) THEN k ELSE ShiftUp(n, d, k + 1)

\* The float nearest to the positive fraction n/d.
NearestFloatPos(n, d) ==
    LET dn == ShiftDown(n, d, 0)
        up == ShiftUp(n, d, 0)
    IN  IF dn > 0
        THEN Frac(RoundHalfEvenNat(n, d * Pow(2, dn)) * Pow(2, dn), 1)
        ELSE Frac(RoundHalfEvenNat(n * Pow(2, up), d), Pow(2, up))

\* The float nearest to the fraction x (IEEE 754 round-to-nearest-even; the
\* exponent range is not bounded).
NearestFloat(x) ==
    IF x[1] = 0 THEN Zero
    ELSE LET r == NearestFloatPos(Abs(x[1]), x[2])
         IN  IF x[1] < 0 THEN <<-r[1], r[2]>> ELSE r

\* Python's float operations.
FloatSub(x, y) == NearestFloat(Frac(x[1] * y[2] - y[1] * x[2], x[2] * y[2]))
FloatAbs(x) == <<Abs(x[1]), x[2]>>
FloatDiv(x, y) ==
    NearestFloat(IF y[1] < 0 THEN Frac(-(x[1] * y[2]), x[2] * (-y[1]))
                 ELSE Frac(x[1] * y[2], x[2] * y[1]))
FloatMul(x, y) == NearestFloat(Frac(x[1] * y[1], x[2] * y[2]))
\* int / int: the correctly rounded quotient of the two integers.
IntTrueDiv(a, b) == NearestFloat(Frac(a, b))
\* round(x): the nearest integer, ties to even.
PyRound(x) ==
    IF x[1] < 0 THEN -RoundHalfEvenNat(-x[1], x[2]) ELSE RoundHalfEvenNat(x[1], x[2])

\* ----------------------------------------------------------- configuration
\* config.coins, in the order of the configuration.
coins == <<"OMG", "KNC">>
CoinSet == {coins[i] : i \in 1..Len(coins)}
\* coin.address
address(coin) ==
    CASE coin = "OMG" -> "0xOMG"
      [] coin = "KNC" -> "0xKNC"
      [] OTHER -> "0xREP"
\* coin.volatility, a float of the configuration: 0.5 and 1.0.
volatility(coin) == IF coin = "OMG" THEN <<1, 2>> ELSE <<1, 1>>

\* ContractRateArgumentsConverter.CHANGE_FACTOR = 10 ** 18
CHANGE_FACTOR == Pow(10, FactorDigits)

\* The prices an observation may carry: None, a negative number, 0, 2.0, 3.0.
Prices == {None, <<-1, 1>>, Zero, <<2, 1>>, <<3, 1>>}
\* coin_price_data: a list of ((coin, market), price), the market being the one
\* market of the configuration; here a list of [coin, price].
Observation(c, p) == [coin |-> c, price |-> p]
Batches ==
    {<<>>}
    \cup {<<Observation(c, p)>> : c \in CoinSet, p \in Prices}
    \cup {<<Observation(coins[1], p), Observation(coins[2], q)>> : p \in Prices, q \in Prices}
\* The lists delivered when ticks overlap: both coins, each at 2.0 or 3.0.
OverlapBatches ==
    {b \in Batches : Len(b) = 2 /\ \A i \in 1..2 : b[i].price \in {<<2, 1>>, <<3, 1>>}}
\* The lists that hold an observation of REP, a coin that is not in
\* config.coins, so that no rate is fetched for it; every price is usable.
UntrackedBatches ==
    {<<Observation("REP", q)>> : q \in {<<2, 1>>, <<3, 1>>}}
    \cup {<<Observation(coins[1], p), Observation("REP", q)>> :
              p \in {<<2, 1>>, <<3, 1>>}, q \in {<<2, 1>>, <<3, 1>>}}
\* The lists delivered while OMG stays at 3.0.
LiveBatches ==
    {<<Observation("OMG", <<3, 1>>), Observation("KNC", q)>> : q \in {<<2, 1>>, <<3, 1>>}}
\* The raw rates the contract may hold at the start: none, 1.0 and 2.0.
InitialRates == {0, CHANGE_FACTOR, 2 * CHANGE_FACTOR}

\* ------------------------------------------- ContractRateArgumentsConverter
convert_rate_from_contract_units(rate_from_contract) ==
    IntTrueDiv(rate_from_contract, CHANGE_FACTOR)

convert_price_to_contract_units(price) ==
    PyRound(FloatMul(price, NearestFloat(FromInt(CHANGE_FACTOR))))

\* `if price:` is false for None and for 0, true for every other number.
Truthy(price) == ~IsNone(price) /\ price[1] # 0

\* Mutant: the address is put at the front of sources, the rate at the end of
\* rates.
RECURSIVE format_coin_prices_misaligned(_)
format_coin_prices_misaligned(coin_price_data) ==
    IF coin_price_data = <<>> THEN <<<<>>, <<>>>>
    ELSE LET n == Len(coin_price_data)
             rest == format_coin_prices_misaligned(SubSeq(coin_price_data, 1, n - 1))
             last == coin_price_data[n]
         IN  IF Truthy(last.price)
             THEN <<<<address(last.coin)>> \o rest[1],
                    Append(rest[2], convert_price_to_contract_units(last.price))>>
             ELSE rest

\* [sources, rates]
RECURSIVE format_coin_prices_for_setter(_)
format_coin_prices_for_setter(coin_price_data) ==
    IF coin_price_data = <<>> THEN <<<<>>, <<>>>>
    ELSE LET n == Len(coin_price_data)
             rest == format_coin_prices_for_setter(SubSeq(coin_price_data, 1, n - 1))
             last == coin_price_data[n]
         IN  IF Truthy(last.price)
             THEN <<Append(rest[1], address(last.coin)),
                    Append(rest[2], convert_price_to_contract_units(last.price))>>
             ELSE rest

\* ---------------------------------------------------- SanityContractUpdater
\* rates[(coin, market)], None on KeyError.
_get_previous_rate(coin, rates) ==
    IF coin \in DOMAIN rates THEN rates[coin] ELSE None

\* Mutant: the comparison made non-strict.
ExceedsVolatilityOrEqual(current_change, coin) == ~Less(current_change, volatility(coin))

\* current_change > coin.volatility
ExceedsVolatility(current_change, coin) == Less(volatility(coin), current_change)

\* Mutant: a baseline of 0 is compared like any other and never exceeded.
_should_update_price_no_bootstrap(coin, previous_rate, current_rate) ==
    IF IsNone(previous_rate) \/ IsNone(current_rate) THEN "TypeError"
    ELSE IF Equal(previous_rate, Zero) THEN "False"
    ELSE LET current_change ==
                 FloatDiv(FloatAbs(FloatSub(current_rate, previous_rate)), previous_rate)
         IN  IF ExceedsVolatility(current_change, coin) THEN "True" ELSE "False"

\* "True", "False", or "TypeError": None - float, float - None and the
\* format specification <10.7f applied to None all raise TypeError.
_should_update_price(coin, previous_rate, current_rate) ==
    IF IsNone(previous_rate) \/ IsNone(current_rate) THEN "TypeError"
    ELSE IF Equal(previous_rate, Zero) THEN "True"
    ELSE LET current_change ==
                 FloatDiv(FloatAbs(FloatSub(current_rate, previous_rate)), previous_rate)
         IN  IF ExceedsVolatility(current_change, coin) THEN "True" ELSE "False"

\* [raised |-> whether TypeError escaped, updates |-> the list returned]
RECURSIVE _prepare_rates_for_update(_, _)
_prepare_rates_for_update(previous_rates, new_rates) ==
    IF new_rates = <<>> THEN [raised |-> FALSE, updates |-> <<>>]
    ELSE LET n == Len(new_rates)
             rest == _prepare_rates_for_update(previous_rates, SubSeq(new_rates, 1, n - 1))
             last == new_rates[n]
             should == _should_update_price(last.coin,
                                            _get_previous_rate(last.coin, previous_rates),
                                            last.price)
         IN  IF rest.raised \/ should = "TypeError" THEN [raised |-> TRUE, updates |-> <<>>]
             ELSE IF should = "True" THEN [raised |-> FALSE, updates |-> Append(rest.updates, last)]
             ELSE rest

\* -------------------------------------------------------------------- state
VARIABLES
    force,               \* ContractUpdaterMonitor._force, set at construction
    overlap,             \* whether the scheduler starts a tick while another runs
    feed,                \* the observation lists the price source may deliver
    quiet,               \* whether the connector has stopped raising
    conv,                \* a rate taken through the two unit conversions
    chain,               \* the contract: coin -> the raw rate tokenRate returns
    pc,                  \* tick -> where its update_prices is suspended
    coin_price_data,     \* tick -> the observations handed to update_prices
    reads,               \* tick -> coin -> the result of its get_rate, or Pending
    rates_for_update,    \* tick -> the list update_prices decided to send
    call,                \* tick -> the arguments of its setSanityRates call
    writes,              \* tick -> call_remote_function calls made by its cycle
    outcome,             \* tick -> how its last cycle ended
    _updates_requested,  \* SanityContractUpdater._updates_requested
    receipts,            \* receipts call_remote_function has returned
    cycles               \* invocations of update_prices started

vars == <<force, overlap, feed, quiet, conv, chain, pc, coin_price_data, reads, rates_for_update, call,
          writes, outcome, _updates_requested, receipts, cycles>>

Ticks == 1..NumTicks

\* A read that has not completed.
Pending == <<-1, 0>>
\* No setSanityRates call was made.
NoCall == <<>>
\* [how |-> "return" or "raise", value |-> the value or the exception,
\*  path |-> the way through update_prices that ended the cycle]
Outcome(h, v, p) == [how |-> h, value |-> v, path |-> p]
NoOutcome == Outcome("-", "-", "-")

\* [step |-> what was applied last, raw |-> the rate of the contract,
\*  price |-> convert_rate_from_contract_units(raw),
\*  back |-> convert_price_to_contract_units(price)]
Conversion(s, x, p, b) == [step |-> s, raw |-> x, price |-> p, back |-> b]
NoConversion == Conversion("-", 0, None, 0)

\* The value of `return None` for "No updates required."
NoUpdateValue == "None"
\* The value of rs after `except PreviousTransactionPending: rs = None`.
CollisionValue == "None"

Init ==
    /\ force \in BOOLEAN
    /\ overlap = FALSE
    /\ feed = Batches
    /\ quiet = FALSE
    /\ conv = NoConversion
    /\ chain \in [CoinSet -> InitialRates]
    /\ pc = [t \in Ticks |-> "idle"]
    /\ coin_price_data = [t \in Ticks |-> <<>>]
    /\ reads = [t \in Ticks |-> [c \in CoinSet |-> Pending]]
    /\ rates_for_update = [t \in Ticks |-> <<>>]
    /\ call = [t \in Ticks |-> NoCall]
    /\ writes = [t \in Ticks |-> 0]
    /\ outcome = [t \in Ticks |-> NoOutcome]
    /\ _updates_requested = 0
    /\ receipts = 0
    /\ cycles = 0

\* The same, with ticks that may overlap.
InitOverlap ==
    /\ force \in BOOLEAN
    /\ overlap = TRUE
    /\ feed = OverlapBatches
    /\ quiet = FALSE
    /\ conv = NoConversion
    /\ chain \in [CoinSet -> InitialRates]
    /\ pc = [t \in Ticks |-> "idle"]
    /\ coin_price_data = [t \in Ticks |-> <<>>]
    /\ reads = [t \in Ticks |-> [c \in CoinSet |-> Pending]]
    /\ rates_for_update = [t \in Ticks |-> <<>>]
    /\ call = [t \in Ticks |-> NoCall]
    /\ writes = [t \in Ticks |-> 0]
    /\ outcome = [t \in Ticks |-> NoOutcome]
    /\ _updates_requested = 0
    /\ receipts = 0
    /\ cycles = 0

\* No tick has started.
InitTicks ==
    /\ pc = [t \in Ticks |-> "idle"]
    /\ coin_price_data = [t \in Ticks |-> <<>>]
    /\ reads = [t \in Ticks |-> [c \in CoinSet |-> Pending]]
    /\ rates_for_update = [t \in Ticks |-> <<>>]
    /\ call = [t \in Ticks |-> NoCall]
    /\ writes = [t \in Ticks |-> 0]
    /\ outcome = [t \in Ticks |-> NoOutcome]
    /\ _updates_requested = 0
    /\ receipts = 0
    /\ cycles = 0

\* Ticks one after the other, fed with observations of a coin that is not in
\* config.coins.
InitUntracked ==
    /\ force \in BOOLEAN
    /\ overlap = FALSE
    /\ feed = UntrackedBatches
    /\ quiet = FALSE
    /\ conv = NoConversion
    /\ chain \in [CoinSet -> InitialRates]
    /\ InitTicks

\* ------------------------------------------------------------------ actions
\* The cycle of tick t ends: update_prices returns or raises, and so does act.
Finish(t, o) ==
    /\ pc' = [pc EXCEPT ![t] = "idle"]
    /\ outcome' = [outcome EXCEPT ![t] = o]

\* Mutant: the rates fetched by the cycle before are kept and used again.
update_prices_called_cached(t, data) ==
    /\ pc[t] = "idle"
    /\ cycles < MaxCycles
    /\ \A u \in Ticks : u < t => pc[u] # "idle"
    /\ overlap \/ \A u \in Ticks : pc[u] = "idle"
    /\ pc' = [pc EXCEPT ![t] = "gather"]
    /\ coin_price_data' = [coin_price_data EXCEPT ![t] = data]
    /\ reads' = [reads EXCEPT ![t] =
                     IF \A c \in CoinSet : reads[t][c] # Pending THEN reads[t]
                     ELSE [c \in CoinSet |-> Pending]]
    /\ rates_for_update' = [rates_for_update EXCEPT ![t] = <<>>]
    /\ call' = [call EXCEPT ![t] = NoCall]
    /\ writes' = [writes EXCEPT ![t] = 0]
    /\ outcome' = [outcome EXCEPT ![t] = NoOutcome]
    /\ cycles' = cycles + 1
    /\ UNCHANGED <<force, overlap, feed, quiet, conv, chain, _updates_requested, receipts>>

\* ContractUpdaterMonitor.act(data, loop) calls update_prices, which runs to
\* the await of _get_previous_rates: one get_rate task per coin is scheduled.
\* Ticks take the lowest free slot; without overlap a tick starts only when
\* no other is in progress.
update_prices_called(t, data) ==
    /\ pc[t] = "idle"
    /\ cycles < MaxCycles
    /\ \A u \in Ticks : u < t => pc[u] # "idle"
    /\ overlap \/ \A u \in Ticks : pc[u] = "idle"
    /\ pc' = [pc EXCEPT ![t] = "gather"]
    /\ coin_price_data' = [coin_price_data EXCEPT ![t] = data]
    /\ reads' = [reads EXCEPT ![t] = [c \in CoinSet |-> Pending]]
    /\ rates_for_update' = [rates_for_update EXCEPT ![t] = <<>>]
    /\ call' = [call EXCEPT ![t] = NoCall]
    /\ writes' = [writes EXCEPT ![t] = 0]
    /\ outcome' = [outcome EXCEPT ![t] = NoOutcome]
    /\ cycles' = cycles + 1
    /\ UNCHANGED <<force, overlap, feed, quiet, conv, chain, _updates_requested, receipts>>

\* call_local_function('tokenRate', [coin.address]) returns the stored rate.
tokenRate(coin) == chain[coin]

\* get_rate(coin) returns: the task of the coin is done.
get_rate_returns(t, coin) ==
    /\ pc[t] = "gather"
    /\ reads[t][coin] = Pending
    /\ reads' = [reads EXCEPT ![t][coin] = convert_rate_from_contract_units(tokenRate(coin))]
    /\ UNCHANGED <<force, overlap, feed, quiet, conv, chain, pc, coin_price_data, rates_for_update, call,
                   writes, outcome, _updates_requested, receipts, cycles>>

\* call_local_function raises Web3ConnectionError: get_rate logs and re-raises,
\* gather hands the exception to update_prices, which does not catch it.
get_rate_raises(t, coin) ==
    /\ pc[t] = "gather"
    /\ reads[t][coin] = Pending
    /\ Finish(t, Outcome("raise", "Web3ConnectionError", "fetch_failed"))
    /\ UNCHANGED <<force, overlap, feed, quiet, conv, chain, coin_price_data, reads, rates_for_update, call,
                   writes, _updates_requested, receipts, cycles>>

\* Mutant: the gather is done with the first task that is done.
GatherFirstDone(t) == \E c \in CoinSet : reads[t][c] # Pending

\* asyncio.gather(...) is done when every task is done.
\* A gather that a forced cycle would not wait for.
GatherDoneUnlessForced(t) == force \/ \A c \in CoinSet : reads[t][c] # Pending

GatherDone(t) == \A c \in CoinSet : reads[t][c] # Pending

\* if force: coin_price_data, else: _prepare_rates_for_update(...)
\* A decision that would apply the threshold rule to a forced cycle too.
DecideIgnoringForce(t) == _prepare_rates_for_update(reads[t], coin_price_data[t])

Decide(t) ==
    IF force THEN [raised |-> FALSE, updates |-> coin_price_data[t]]
    ELSE _prepare_rates_for_update(reads[t], coin_price_data[t])

\* Mutant: the decision filters new_rates in place, so the observations of the
\* tick become the list to send.
update_prices_resumes_in_place(t) ==
    /\ pc[t] = "gather"
    /\ GatherDone(t)
    /\ LET decided == Decide(t)
       IN  IF decided.raised
           THEN /\ Finish(t, Outcome("raise", "TypeError", "decide_failed"))
                /\ UNCHANGED <<coin_price_data, rates_for_update, call, writes>>
           ELSE IF decided.updates # <<>>
           THEN /\ pc' = [pc EXCEPT ![t] = "set_rates"]
                /\ coin_price_data' = [coin_price_data EXCEPT ![t] = decided.updates]
                /\ rates_for_update' = [rates_for_update EXCEPT ![t] = decided.updates]
                /\ call' = [call EXCEPT ![t] = format_coin_prices_for_setter(decided.updates)]
                /\ writes' = [writes EXCEPT ![t] = @ + 1]
                /\ UNCHANGED outcome
           ELSE /\ Finish(t, Outcome("return", NoUpdateValue, "no_update"))
                /\ coin_price_data' = [coin_price_data EXCEPT ![t] = decided.updates]
                /\ UNCHANGED <<rates_for_update, call, writes>>
    /\ UNCHANGED <<force, overlap, feed, quiet, conv, chain, reads, _updates_requested,
                   receipts, cycles>>

\* update_prices resumes after the gather, decides, and either returns or
\* goes on to set_rates, up to the await of call_remote_function.
update_prices_resumes(t) ==
    /\ pc[t] = "gather"
    /\ GatherDone(t)
    /\ LET decided == Decide(t)
       IN  IF decided.raised
           THEN /\ Finish(t, Outcome("raise", "TypeError", "decide_failed"))
                /\ UNCHANGED <<rates_for_update, call, writes>>
           ELSE IF decided.updates # <<>>
           THEN /\ pc' = [pc EXCEPT ![t] = "set_rates"]
                /\ rates_for_update' = [rates_for_update EXCEPT ![t] = decided.updates]
                /\ call' = [call EXCEPT ![t] = format_coin_prices_for_setter(decided.updates)]
                /\ writes' = [writes EXCEPT ![t] = @ + 1]
                /\ UNCHANGED outcome
           ELSE /\ Finish(t, Outcome("return", NoUpdateValue, "no_update"))
                /\ UNCHANGED <<rates_for_update, call, writes>>
    /\ UNCHANGED <<force, overlap, feed, quiet, conv, chain, coin_price_data, reads, _updates_requested,
                   receipts, cycles>>

\* The contract after setSanityRates(sources, rates).
setSanityRates(args) ==
    [c \in CoinSet |->
        IF \E i \in 1..Len(args[1]) : args[1][i] = address(c)
        THEN args[2][CHOOSE i \in 1..Len(args[1]) : args[1][i] = address(c)]
        ELSE chain[c]]

\* Mutant: the counter is incremented before the await.
UpdatesRequestedAlways(n, result) == n + 1

\* _updates_requested after set_rates was awaited: `+= 1` follows the await
\* inside the try and is skipped when the await raises.
UpdatesRequestedAfter(n, result) == IF result = "receipt" THEN n + 1 ELSE n

\* call_remote_function returns a receipt (the rates are uint256: a negative
\* rate cannot be encoded).
set_rates_returns(t) ==
    /\ pc[t] = "set_rates"
    /\ \A i \in 1..Len(call[t][2]) : call[t][2][i] >= 0
    /\ chain' = setSanityRates(call[t])
    /\ receipts' = receipts + 1
    /\ _updates_requested' = UpdatesRequestedAfter(_updates_requested, "receipt")
    /\ Finish(t, Outcome("return", "receipt", "confirmed"))
    /\ UNCHANGED <<force, overlap, feed, quiet, conv, coin_price_data, reads, rates_for_update, call,
                   writes, cycles>>

\* Mutant: after PreviousTransactionPending the updater waits for the pending
\* transaction and never returns.
set_rates_pending_blocks(t) ==
    /\ pc[t] = "set_rates"
    /\ pc' = [pc EXCEPT ![t] = "blocked"]
    /\ outcome' = [outcome EXCEPT ![t] = Outcome("-", "-", "collision")]
    /\ UNCHANGED <<force, overlap, feed, quiet, conv, chain, coin_price_data, reads,
                   rates_for_update, call, writes, _updates_requested, receipts, cycles>>

\* Mutant: after PreviousTransactionPending the call is made again.
set_rates_pending_resend(t) ==
    /\ pc[t] = "set_rates"
    /\ writes[t] < 3
    /\ writes' = [writes EXCEPT ![t] = @ + 1]
    /\ UNCHANGED <<force, overlap, feed, quiet, conv, chain, pc, coin_price_data, reads,
                   rates_for_update, call, outcome, _updates_requested, receipts, cycles>>

\* call_remote_function raises PreviousTransactionPending: rs = None.
set_rates_pending(t) ==
    /\ pc[t] = "set_rates"
    /\ _updates_requested' =
           UpdatesRequestedAfter(_updates_requested, "PreviousTransactionPending")
    /\ Finish(t, Outcome("return", CollisionValue, "collision"))
    /\ UNCHANGED <<force, overlap, feed, quiet, conv, chain, coin_price_data, reads, rates_for_update, call,
                   writes, receipts, cycles>>

\* call_remote_function raises anything else: update_prices does not catch it.
set_rates_raises(t) ==
    /\ pc[t] = "set_rates"
    /\ _updates_requested' = UpdatesRequestedAfter(_updates_requested, "Exception")
    /\ Finish(t, Outcome("raise", "Exception", "write_failed"))
    /\ UNCHANGED <<force, overlap, feed, quiet, conv, chain, coin_price_data, reads, rates_for_update, call,
                   writes, receipts, cycles>>

Next ==
    \/ \E t \in Ticks, data \in feed : update_prices_called(t, data)
    \/ \E t \in Ticks, c \in CoinSet : get_rate_returns(t, c)
    \/ \E t \in Ticks, c \in CoinSet : get_rate_raises(t, c)
    \/ \E t \in Ticks : update_prices_resumes(t)
    \/ \E t \in Ticks : set_rates_returns(t)
    \/ \E t \in Ticks : set_rates_pending(t)
    \/ \E t \in Ticks : set_rates_raises(t)

\* Ticks one after the other.
Spec == Init /\ [][Next]_vars
\* Ticks that may overlap.
SpecOverlap == InitOverlap /\ [][Next]_vars

\* ------------------------------------------------------ the unit conversions
\* A raw rate of the contract, before any conversion.
InitConvert ==
    /\ force = FALSE
    /\ overlap = FALSE
    /\ feed = {}
    /\ quiet = FALSE
    /\ conv \in {Conversion("raw", x, None, 0) : x \in 0..MaxRaw}
    /\ chain = [c \in CoinSet |-> 0]
    /\ InitTicks

\* get_rate: convert_rate_from_contract_units(rate_from_contract)
from_contract_units_applied ==
    /\ conv.step = "raw"
    /\ conv' = Conversion("price", conv.raw, convert_rate_from_contract_units(conv.raw), 0)
    /\ UNCHANGED <<force, overlap, feed, quiet, chain, pc, coin_price_data, reads,
                   rates_for_update, call, writes, outcome, _updates_requested, receipts,
                   cycles>>

\* format_coin_prices_for_setter: convert_price_to_contract_units(price)
to_contract_units_applied ==
    /\ conv.step = "price"
    /\ conv' = Conversion("back", conv.raw, conv.price,
                          convert_price_to_contract_units(conv.price))
    /\ UNCHANGED <<force, overlap, feed, quiet, chain, pc, coin_price_data, reads,
                   rates_for_update, call, writes, outcome, _updates_requested, receipts,
                   cycles>>

NextConvert == from_contract_units_applied \/ to_contract_units_applied

\* A raw rate converted to a price and back.
SpecConvert == InitConvert /\ [][NextConvert]_vars

\* ------------------------------------------------ ticks that go on for ever
\* OMG is observed at 3.0 and stored at 0 or 1.0: beyond its volatility.
InitLive ==
    /\ force \in BOOLEAN
    /\ overlap = FALSE
    /\ feed = LiveBatches
    /\ quiet = FALSE
    /\ conv = NoConversion
    /\ chain \in {ch \in [CoinSet -> InitialRates] : ch["OMG"] < 2 * CHANGE_FACTOR}
    /\ InitTicks

\* From now on the connector raises nothing: no connectivity error, no
\* pending transaction, no other failure.  A tick is still to come.
connector_recovers ==
    /\ ~quiet
    /\ cycles < MaxCycles
    /\ quiet' = TRUE
    /\ UNCHANGED <<force, overlap, feed, conv, chain, pc, coin_price_data, reads,
                   rates_for_update, call, writes, outcome, _updates_requested, receipts,
                   cycles>>

NextLive ==
    \/ connector_recovers
    \/ \E t \in Ticks, data \in feed : update_prices_called(t, data)
    \/ \E t \in Ticks, c \in CoinSet : get_rate_returns(t, c)
    \/ \E t \in Ticks : update_prices_resumes(t)
    \/ \E t \in Ticks : set_rates_returns(t)
    \/ ~quiet /\ \E t \in Ticks, c \in CoinSet : get_rate_raises(t, c)
    \/ ~quiet /\ \E t \in Ticks : set_rates_pending(t)
    \/ ~quiet /\ \E t \in Ticks : set_rates_raises(t)

\* update_prices_resumes(t) can be taken: its guard, the action being defined
\* for every decision.
ResumeEnabled == \E t \in Ticks : pc[t] = "gather" /\ GatherDone(t)

\* The scheduler calls act at every tick, the event loop resumes a coroutine
\* whose awaited future is done, and a call the connector does not fail
\* returns.  The condition on update_prices_resumes is WF_vars of it, written
\* with its guard for ENABLED.
Fairness ==
    /\ WF_vars(\E t \in Ticks, data \in feed : update_prices_called(t, data))
    /\ \A t \in Ticks, c \in CoinSet : WF_vars(get_rate_returns(t, c))
    /\ \A t \in Ticks : WF_vars(set_rates_returns(t))
    /\ \/ []<>(~ResumeEnabled)
       \/ []<><<\E t \in Ticks : update_prices_resumes(t)>>_vars

SpecLive == InitLive /\ [][NextLive]_vars /\ Fairness

\* Overlapping ticks that decide without force: OMG is stored at 2.0 and KNC
\* has no rate, and both are observed at 2.0 or 3.0.
InitDecide ==
    /\ force = FALSE
    /\ overlap = TRUE
    /\ feed = OverlapBatches
    /\ quiet = FALSE
    /\ conv = NoConversion
    /\ chain = [c \in CoinSet |-> IF c = "OMG" THEN 2 * CHANGE_FACTOR ELSE 0]
    /\ InitTicks

SpecDecide == InitDecide /\ [][Next]_vars

\* Ticks one after the other, with observations of an untracked coin.
SpecUntracked == InitUntracked /\ [][Next]_vars

\* ------------------------------------------------------------------- claims
\* A usable price: a number greater than 0.
Usable(price) == ~IsNone(price) /\ price[1] > 0

\* The decision step of the cycle of tick t has returned its list.
Decided(t) ==
    \/ pc[t] = "set_rates"
    \/ outcome[t].path \in {"no_update", "confirmed", "collision", "write_failed"}

\* Observation i of tick t is in the list decided for update.
InBatch(t, i) ==
    \E j \in 1..Len(rates_for_update[t]) : rates_for_update[t][j] = coin_price_data[t][i]

\* abs(observed - baseline) / baseline > threshold, in exact arithmetic, for
\* baseline > 0.
RelativeChangeAbove(observed, baseline, threshold) ==
    Abs(observed[1] * baseline[2] - baseline[1] * observed[2]) * threshold[2]
        > threshold[1] * observed[2] * baseline[1]

\* abs(observed - baseline) / baseline = threshold, for baseline > 0.
RelativeChangeAt(observed, baseline, threshold) ==
    Abs(observed[1] * baseline[2] - baseline[1] * observed[2]) * threshold[2]
        = threshold[1] * observed[2] * baseline[1]

\* C1: in a non-forced cycle, an observation with a usable price whose
\* baseline is greater than 0 is in the list decided for update exactly when
\* its relative change is strictly greater than the volatility of its coin.
C1_StrictThreshold ==
    \A t \in Ticks :
        (~force /\ Decided(t)) =>
            \A i \in 1..Len(coin_price_data[t]) :
                LET o == coin_price_data[t][i]
                    baseline == reads[t][o.coin]
                IN  (Usable(o.price) /\ Less(Zero, baseline)) =>
                        (InBatch(t, i) <=>
                             RelativeChangeAbove(o.price, baseline, volatility(o.coin)))

\* A non-forced cycle is about to send one coin and has left out another whose
\* relative change is exactly its volatility.
C1_Witness ==
    \E t \in Ticks :
        /\ ~force
        /\ pc[t] = "set_rates"
        /\ \E i, j \in 1..Len(coin_price_data[t]) :
               LET o == coin_price_data[t][i]
                   u == coin_price_data[t][j]
               IN  /\ Usable(o.price) /\ Less(Zero, reads[t][o.coin])
                   /\ RelativeChangeAt(o.price, reads[t][o.coin], volatility(o.coin))
                   /\ ~InBatch(t, i)
                   /\ Usable(u.price) /\ Less(Zero, reads[t][u.coin])
                   /\ InBatch(t, j)

\* C2: in a non-forced cycle, an observation with a usable price whose
\* baseline is 0 is in the list decided for update and in the arguments of
\* the setSanityRates call.
C2_ZeroBaselineIncluded ==
    \A t \in Ticks :
        (~force /\ Decided(t)) =>
            \A i \in 1..Len(coin_price_data[t]) :
                LET o == coin_price_data[t][i]
                IN  (Usable(o.price) /\ Equal(reads[t][o.coin], Zero)) =>
                        /\ InBatch(t, i)
                        /\ \E k \in 1..Len(call[t][1]) :
                               /\ call[t][1][k] = address(o.coin)
                               /\ call[t][2][k] = convert_price_to_contract_units(o.price)

\* A non-forced cycle is about to send a coin whose baseline is 0, and has
\* left out the other, whose baseline is not 0.
C2_Witness ==
    \E t \in Ticks :
        /\ ~force
        /\ pc[t] = "set_rates"
        /\ Len(coin_price_data[t]) = 2
        /\ \E i \in 1..2 :
               /\ Usable(coin_price_data[t][i].price)
               /\ Equal(reads[t][coin_price_data[t][i].coin], Zero)
               /\ InBatch(t, i)
        /\ Len(rates_for_update[t]) = 1

\* C3: the setSanityRates call of a cycle is made only when the tokenRate
\* read of every coin has returned in that cycle, and a cycle in which a read
\* raised makes no call and decides no list.
C3_WriteAfterAllReads ==
    \A t \in Ticks :
        /\ (pc[t] = "set_rates" \/ writes[t] > 0) =>
               \A c \in CoinSet : reads[t][c] # Pending
        /\ outcome[t].path = "fetch_failed" =>
               /\ writes[t] = 0
               /\ call[t] = NoCall
               /\ rates_for_update[t] = <<>>

\* A cycle ended by a failed read after the read of another coin had returned.
C3_Witness ==
    \E t \in Ticks :
        /\ outcome[t].path = "fetch_failed"
        /\ \E c \in CoinSet : reads[t][c] # Pending
        /\ \E c \in CoinSet : reads[t][c] = Pending

\* C4: no two setSanityRates calls are in flight at once.
C4_OneSubmissionInFlight ==
    Cardinality({t \in Ticks : pc[t] = "set_rates"}) <= 1

\* C5: the arguments of a setSanityRates call hold no entry for a coin
\* observed with a price that is None, 0 or negative.
C5_NoUnusablePriceInCall ==
    \A t \in Ticks :
        call[t] # NoCall =>
            \A i \in 1..Len(coin_price_data[t]) :
                LET o == coin_price_data[t][i]
                IN  ~Usable(o.price) =>
                        \A k \in 1..Len(call[t][1]) : call[t][1][k] # address(o.coin)

\* C6: a non-forced cycle whose observations hold a None price does not end
\* by raising out of its decision step.
C6_NonePriceNotAnError ==
    \A t \in Ticks :
        (~force /\ \E i \in 1..Len(coin_price_data[t]) : IsNone(coin_price_data[t][i].price))
            => outcome[t].path # "decide_failed"

\* C7: a cycle whose arguments hold no (address, rate) entry makes no
\* setSanityRates call.
C7_EmptyBatchNoCall ==
    \A t \in Ticks :
        writes[t] > 0 => Len(call[t][1]) > 0

\* C8: _updates_requested is the number of receipts returned.
C8_CounterCountsReceipts == _updates_requested = receipts

\* One cycle was confirmed and a later one ended by a collision.
C8_Witness ==
    \E t \in Ticks :
        /\ outcome[t].path = "collision"
        /\ receipts = 1
        /\ cycles = 2

\* C9: a cycle ended by a failed read or a failed write ends by a return.
C9_FatalReturnsOutcome ==
    \A t \in Ticks :
        outcome[t].path \in {"fetch_failed", "write_failed"} => outcome[t].how = "return"

\* C10: the value returned after a collision is not the value returned when
\* no update was required.
C10_CollisionDistinctFromNoUpdate ==
    \A t \in Ticks :
        outcome[t].path = "collision" => outcome[t].value # NoUpdateValue

C12_AlignedArrays ==
    \A t \in Ticks :
        call[t] # NoCall =>
            LET sent == SelectSeq(rates_for_update[t], LAMBDA o : Truthy(o.price))
            IN  /\ Len(call[t][1]) = Len(call[t][2])
                /\ Len(call[t][1]) = Len(sent)
                /\ \A k \in 1..Len(sent) :
                       /\ call[t][1][k] = address(sent[k].coin)
                       /\ call[t][2][k] = convert_price_to_contract_units(sent[k].price)

\* A call in flight with two entries of different rates.
C12_Witness ==
    \E t \in Ticks :
        /\ pc[t] = "set_rates"
        /\ Len(call[t][1]) = 2
        /\ call[t][2][1] # call[t][2][2]

\* C13: a non-forced cycle that observes, with a usable price, a coin for
\* which no rate was fetched does not fail in its decision step, and puts the
\* coin in the list to send.
C13_AbsentBaselineIsZero ==
    \A t \in Ticks :
        (/\ ~force
         /\ pc[t] = "idle"
         /\ outcome[t].path \notin {"-", "fetch_failed"}
         /\ \E i \in 1..Len(coin_price_data[t]) :
                /\ coin_price_data[t][i].coin \notin DOMAIN reads[t]
                /\ Usable(coin_price_data[t][i].price))
        => /\ outcome[t].path # "decide_failed"
           /\ \A i \in 1..Len(coin_price_data[t]) :
                  coin_price_data[t][i].coin \notin DOMAIN reads[t] => InBatch(t, i)

\* C14: a non-negative raw rate converted to a price and back is the same
\* integer.
C14_RoundTrip == conv.step = "back" => conv.back = conv.raw

\* C15: with ticks one after the other, every rate a cycle holds, while it
\* gathers, decides and sends, was read from the contract in that cycle: it is
\* the conversion of the rate the contract stores now, and a cycle has a rate
\* for every coin before it sends.
C15_BaselineReadInCycle ==
    \A t \in Ticks :
        /\ pc[t] \in {"gather", "set_rates"} =>
               \A c \in CoinSet :
                   reads[t][c] # Pending =>
                       reads[t][c] = convert_rate_from_contract_units(tokenRate(c))
        /\ pc[t] = "set_rates" => \A c \in CoinSet : reads[t][c] # Pending

\* The second cycle has fetched, for OMG, the rate the first cycle wrote: 3.0
\* is not a rate of the start.
C15_Witness ==
    \E t \in Ticks :
        /\ cycles = 2
        /\ receipts = 1
        /\ pc[t] = "gather"
        /\ \A c \in CoinSet : reads[t][c] # Pending
        /\ reads[t]["OMG"] = <<3, 1>>

\* The rate the contract stores for OMG is not the observed 3.0.
OMGStale == chain["OMG"] # convert_price_to_contract_units(<<3, 1>>)

\* A setSanityRates call that holds OMG has returned a receipt.
OMGConfirmed ==
    \E t \in Ticks :
        /\ outcome[t].path = "confirmed"
        /\ \E k \in 1..Len(call[t][1]) : call[t][1][k] = address("OMG")
        /\ ~OMGStale

\* C16: once the connector has stopped raising, whatever collisions and
\* failures came before, a pair that is beyond its volatility is eventually
\* sent in a call that is confirmed.
C16_ConfirmedAfterCollisions == (quiet /\ OMGStale) ~> OMGConfirmed

\* The last cycle ended by a collision, OMG is still stale, and the connector
\* has stopped raising.
C16_Witness ==
    \E t \in Ticks :
        /\ outcome[t].path = "collision"
        /\ pc[t] = "idle"
        /\ quiet
        /\ OMGStale

\* The step of tick t in which update_prices decides: it leaves the gather.
DecisionStep(t) == pc[t] = "gather" /\ pc'[t] # "gather"

\* C17, the frame: the step in which a cycle decides changes neither the
\* fetched rates nor the observations, nor the contract, the counter or the
\* receipts; it starts no read, and it makes a call only for a list that is
\* not empty.
C17_DecisionFrame ==
    \A t \in Ticks :
        DecisionStep(t) =>
            /\ reads' = reads
            /\ coin_price_data' = coin_price_data
            /\ chain' = chain
            /\ _updates_requested' = _updates_requested
            /\ receipts' = receipts
            /\ writes'[t] # writes[t] => rates_for_update'[t] # <<>>

\* C17, the result: two cycles that decided without force on equal rates and
\* equal observations decided the same list.
C17_SameInputsSameBatch ==
    \A t, u \in Ticks :
        (/\ ~force
         /\ Decided(t) /\ Decided(u)
         /\ reads[t] = reads[u]
         /\ coin_price_data[t] = coin_price_data[u])
        => rates_for_update[t] = rates_for_update[u]

C18_ForcedSendsEveryUsable ==
    \A t \in Ticks :
        (force /\ Decided(t)) =>
            \A i \in 1..Len(coin_price_data[t]) :
                LET o == coin_price_data[t][i]
                IN  Usable(o.price) =>
                        /\ call[t] # NoCall
                        /\ writes[t] > 0
                        /\ \E k \in 1..Len(call[t][1]) :
                               /\ call[t][1][k] = address(o.coin)
                               /\ call[t][2][k] = convert_price_to_contract_units(o.price)

\* A forced cycle has sent an observation whose price equals the rate read
\* for it, a change the threshold rule would leave out.
C18_Witness ==
    \E t \in Ticks :
        /\ force
        /\ pc[t] = "set_rates"
        /\ \E i \in 1..Len(coin_price_data[t]) :
               LET o == coin_price_data[t][i]
               IN  /\ Usable(o.price)
                   /\ Less(Zero, reads[t][o.coin])
                   /\ Equal(o.price, reads[t][o.coin])
                   /\ \E k \in 1..Len(call[t][1]) : call[t][1][k] = address(o.coin)

\* C19: a forced cycle makes its call only once every tokenRate read of the
\* cycle has returned, and a forced cycle in which a read failed makes none.
C19_ForcedReadsFirst ==
    \A t \in Ticks :
        force =>
            /\ (call[t] # NoCall \/ pc[t] = "set_rates") =>
                   \A c \in CoinSet : reads[t][c] # Pending
            /\ outcome[t].path = "fetch_failed" => (writes[t] = 0 /\ call[t] = NoCall)

\* A forced cycle with a usable observation ended on a failed read, after
\* another read had returned.
C19_Witness ==
    \E t \in Ticks :
        /\ force
        /\ outcome[t].path = "fetch_failed"
        /\ pc[t] = "idle"
        /\ writes[t] = 0
        /\ \E c \in CoinSet : reads[t][c] # Pending
        /\ \E i \in 1..Len(coin_price_data[t]) : Usable(coin_price_data[t][i].price)

====
